---- MODULE Spec2Model ----
(***************************************************************************)
(* A model of ssc-billing-logger.py: one cron-started run of main() after  *)
(* another over the files the script reads and writes (the cursor in       *)
(* logger-state/state.json, the cost table in logger-state/costs.json, the *)
(* record files in records/) and the answers of keystone, ceilometer and   *)
(* nova.                                                                   *)
(*                                                                         *)
(* Time is counted in ticks since the script's fallback epoch              *)
(* 2015-01-01T00:00Z; TicksPerHour ticks make one hour, so that a clock    *)
(* reading or a cursor need not lie on an hour boundary.                   *)
(***************************************************************************)
EXTENDS Integers, Sequences, FiniteSets, TLC

\* ------------------------------------------------------------------ bounds
TicksPerHour == 2
\* the clock reading when the first run starts is in 0..MaxNow, or Outage
MaxNow == 2
\* a cursor found in state.json is in 0..MaxCursor
MaxCursor == 1
\* the ticks a behaviour spends between its runs, all pauses together
MaxWaited == 1
\* the entries of one statistics answer
MaxEntries == 1
\* the hour buckets a statistics answer may name, counted from period_start
MaxBuckets == 1
\* the calls made on one IdentityCache
MaxCalls == 4
\* the latest timestamp of a sample or a cursor put to the statistics filter
MaxStamp == 5
\* a first start 22 days after the epoch: weeks of backlog are waiting
Outage == 22 * 24 * TicksPerHour

\* --------------------------------------------------------- program constants
\* arrow.get('2015-01-01T00:00Z'), the origin of the model's clock
EPOCH == 0
\* duration_seconds = 3600, in hours
DurationHours == 1
\* int(gigabytes * 2**32)
DiskShift == 32

\* the length of one statistics period, in ticks
Hour == DurationHours * TicksPerHour

\* ------------------------------------------------------------------ helpers
None == <<>>
Some(x) == <<x>>

http_category(code) == (code \div 100) * 100

\* arrow's floor('hour')
floor_hour(t) == (t \div TicksPerHour) * TicksPerHour

\* period_start.replace(hours=+1): the old arrow API shifts by one hour
replace_hours_plus_1(t) == t + TicksPerHour

StatusCodes == {200, 404, 503}

\* cfg.region and cfg.site
Region == "r1"
Site == "s1"

VARIABLES
  now,                   \* the wall clock, in ticks
  state_file,            \* last_timepoint of logger-state/state.json: None or Some(t)
  cost_file,             \* logger-state/costs.json
  files,                 \* records/: the set of [name, body, complete] files
  runs,                  \* the runs started so far
  waited,                \* the ticks spent between the runs so far
  windows,               \* the [start, end] windows of the runs that completed
  pc,                    \* where main() stands
  do_singlestep,         \* the -s flag of this run
  flavor_costs,          \* CostDefinition.flavor_costs
  last_timepoint,        \* persistent_state.last_timepoint
  period_start,
  period_end,
  planned,               \* main() got as far as computing the window
  resources,             \* populate_instances: the inventory answer
  instance_measurements, \* populate_instances: the aggregates, in insertion order
  cloud_records,         \* gather_cloud_records: crs
  gather_at,             \* gather_cloud_records: the aggregates it got through
  lookups,               \* identity lookups sent by this run
  deleted_at,            \* the deletion ledger as of this run: resource -> None or Some(t)
  error,                 \* "" or what ended the run
  calls,                 \* HTTP requests sent by this run
  at_start,              \* state_file and files as the run found them
  journal,               \* what an observer of the runs has noted down
  identity_cache,        \* an IdentityCache called from outside: users, projects
  asked,                 \* what the caller of identity_cache has noted down
  sampled                \* a sample put to the statistics filters of two windows

vars == <<now, state_file, cost_file, files, runs, waited, windows, journal, pc,
          do_singlestep,
          flavor_costs, last_timepoint, period_start, period_end, planned,
          resources, instance_measurements, cloud_records, gather_at, lookups,
          deleted_at, error, calls, at_start, identity_cache, asked, sampled>>

\* all but the IdentityCache called from outside
run_vars == <<now, state_file, cost_file, files, runs, waited, windows, journal,
              pc, do_singlestep, flavor_costs, last_timepoint, period_start,
              period_end, planned, resources, instance_measurements,
              cloud_records, gather_at, lookups, deleted_at, error, calls,
              at_start>>


\* --------------------------------------------------------------- cost table
\* the pricing keys a costs.json may hold, and the price it gives each
\* (compute: milli-coins per hour; storage.block: milli-coins per GiB*h)
PricingKeys == {"m1.small", "storage.block"}
PriceOf(k) == IF k = "storage.block" THEN 2 ELSE 50
NoCosts == [k \in {} |-> 0]
\* the tables that lack at most one of the keys
CostTables == {[k \in S |-> PriceOf(k)] : S \in SUBSET PricingKeys \ {{}}}
CostFiles ==
  {[exists |-> FALSE, regions |-> ("r1" :> NoCosts)]}
    \cup {[exists |-> TRUE, regions |-> ("r2" :> NoCosts)]}
    \cup {[exists |-> TRUE, regions |-> ("r1" :> t)] : t \in CostTables}

\* CostDefinition.__init__
CostDefinition_init(cf, region) ==
  IF ~cf.exists THEN [error |-> "E1005", flavor_costs |-> NoCosts]
  ELSE IF region \notin DOMAIN cf.regions
       THEN [error |-> "E1006", flavor_costs |-> NoCosts]
       ELSE [error |-> "", flavor_costs |-> cf.regions[region]]

\* CostDefinition.lookup_compute: the except branch formats its message with
\* flavour_name, a name the method does not bind, and so raises NameError
lookup_compute(costs, flavor_name) ==
  IF flavor_name \in DOMAIN costs
  THEN [error |-> "", cost |-> costs[flavor_name]]
  ELSE [error |-> "NameError", cost |-> 0]

\* a lookup that falls back on the list price of block storage
lookup_block_storage_list_price(costs, gigabytes) ==
  IF "storage.block" \in DOMAIN costs
  THEN costs["storage.block"] * gigabytes
  ELSE PriceOf("storage.block") * gigabytes

\* CostDefinition.lookup_block_storage
lookup_block_storage(costs, gigabytes) ==
  IF "storage.block" \in DOMAIN costs
  THEN costs["storage.block"] * gigabytes
  ELSE 0

\* ------------------------------------------------------------------- cursor
\* PersistentState.__init__: a missing file, or one without the key, is None
PersistentState_init(file) == file

\* ------------------------------------------------------------------- window
\* three weeks, in ticks
ThreeWeeks == 21 * 24 * TicksPerHour

\* a window rule whose fallback start is three weeks before the clock
main_window_three_weeks(last_tp, utcnow, singlestep) ==
  LET start == IF last_tp = None THEN floor_hour(utcnow) - ThreeWeeks ELSE last_tp[1]
      end == floor_hour(utcnow)
      succ == replace_hours_plus_1(start)
  IN  IF end <= start
      THEN [work |-> FALSE, period_start |-> start, period_end |-> end]
      ELSE IF singlestep
           THEN IF end < succ
                THEN [work |-> FALSE, period_start |-> start, period_end |-> end]
                ELSE [work |-> TRUE, period_start |-> start, period_end |-> succ]
           ELSE [work |-> TRUE, period_start |-> start, period_end |-> end]

\* a window rule that shortens the single step to the hours the clock offers
main_window_narrow(last_tp, utcnow, singlestep) ==
  LET start == IF last_tp = None THEN EPOCH ELSE last_tp[1]
      end == floor_hour(utcnow)
      succ == replace_hours_plus_1(start)
  IN  IF end <= start
      THEN [work |-> FALSE, period_start |-> start, period_end |-> end]
      ELSE IF singlestep
           THEN [work |-> TRUE, period_start |-> start,
                 period_end |-> IF end < succ THEN end ELSE succ]
           ELSE [work |-> TRUE, period_start |-> start, period_end |-> end]

\* a window rule that takes a clock at period_start itself as work to do
main_window_strict(last_tp, utcnow, singlestep) ==
  LET start == IF last_tp = None THEN EPOCH ELSE last_tp[1]
      end == floor_hour(utcnow)
      succ == replace_hours_plus_1(start)
  IN  IF end < start
      THEN [work |-> FALSE, period_start |-> start, period_end |-> end]
      ELSE IF singlestep
           THEN IF end < succ
                THEN [work |-> FALSE, period_start |-> start, period_end |-> end]
                ELSE [work |-> TRUE, period_start |-> start, period_end |-> succ]
           ELSE [work |-> TRUE, period_start |-> start, period_end |-> end]

\* a window rule that steps at most 24 hours in catch-up mode
main_window_day_clamp(last_tp, utcnow, singlestep) ==
  LET start == IF last_tp = None THEN EPOCH ELSE last_tp[1]
      end == floor_hour(utcnow)
      succ == replace_hours_plus_1(start)
      day == start + 24 * TicksPerHour
  IN  IF end <= start
      THEN [work |-> FALSE, period_start |-> start, period_end |-> end]
      ELSE IF singlestep
           THEN IF end < succ
                THEN [work |-> FALSE, period_start |-> start, period_end |-> end]
                ELSE [work |-> TRUE, period_start |-> start, period_end |-> succ]
           ELSE [work |-> TRUE, period_start |-> start,
                 period_end |-> IF end < day THEN end ELSE day]

\* main(), from the cursor to the window: work is FALSE where main() returns
\* before it contacts any service
main_window(last_tp, utcnow, singlestep) ==
  LET start == IF last_tp = None THEN EPOCH ELSE last_tp[1]
      end == floor_hour(utcnow)
      succ == replace_hours_plus_1(start)
  IN  IF end <= start
      THEN [work |-> FALSE, period_start |-> start, period_end |-> end]
      ELSE IF singlestep
           THEN IF end < succ
                THEN [work |-> FALSE, period_start |-> start, period_end |-> end]
                ELSE [work |-> TRUE, period_start |-> start, period_end |-> succ]
           ELSE [work |-> TRUE, period_start |-> start, period_end |-> end]

\* ------------------------------------------------------- populate_instances
\* ceilometer's /resources answer: an instance, and a volume whose metadata
\* names no instance_type and no availability_zone
Inventory ==
  << [resource_id |-> "i1", project_id |-> "p1", user_id |-> "u1",
      metadata |-> [instance_type |-> "m1.small", availability_zone |-> "nova"]],
     [resource_id |-> "v1", project_id |-> "p1", user_id |-> "u2",
      metadata |-> [size |-> "10"]] >>

\* the resources a statistics entry may name; x1 is not in the inventory
StatResourceIds == {"i1", "v1", "x1"}

\* entry['max'] of each meter: vcpus, MiB of memory, GiB of volume
MeterMax(meter) ==
  IF meter = "vcpus" THEN 2 ELSE IF meter = "memory" THEN 4096 ELSE 10

\* the entries ceilometer may answer for a meter over (start, end]: one per
\* resource and hour bucket
StatEntries(meter, start, end) ==
  {[resource_id |-> r, period_start |-> start + k * Hour,
    period_end |-> start + (k + 1) * Hour, max |-> MeterMax(meter)] :
      r \in StatResourceIds,
      k \in {j \in 0..(MaxBuckets - 1) : start + j * Hour < end}}

SeqsUpTo(S, n) == UNION {[1..m -> S] : m \in 0..n}

StatAnswers(meter, start, end) == SeqsUpTo(StatEntries(meter, start, end), MaxEntries)

\* next(r for r in resources if r['resource_id'] == res_id): the index, 0 for
\* StopIteration
find_resource(rs, res_id) ==
  IF \E i \in 1..Len(rs) : rs[i].resource_id = res_id
  THEN CHOOSE i \in 1..Len(rs) :
         /\ rs[i].resource_id = res_id
         /\ \A j \in 1..(i - 1) : rs[j].resource_id # res_id
  ELSE 0

\* the place of key in the dict, 0 when it is not a key
key_index(im, key) ==
  IF \E i \in 1..Len(im) : im[i].key = key
  THEN CHOOSE i \in 1..Len(im) : im[i].key = key
  ELSE 0

\* metadata.get('availability_zone', 'default')
zone_of(metadata) ==
  IF "availability_zone" \in DOMAIN metadata
  THEN metadata.availability_zone
  ELSE "default"

duration_iso == "PT3600S"

\* the body of the vcpus/memory loop for one entry; acc is [error, im]
compute_entry(acc, entry, field, rs) ==
  LET key == <<entry.resource_id, entry.period_start, entry.period_end>>
      at == key_index(acc.im, key)
      r == find_resource(rs, entry.resource_id)
  IN  IF acc.error # "" THEN acc
      ELSE IF at # 0
      THEN [acc EXCEPT !.im[at].inst = (field :> entry.max) @@ @]
      \* except StopIteration: ppr.pprint(r), and r is not bound there
      ELSE IF r = 0 THEN [acc EXCEPT !.error = "NameError"]
      \* metadata['instance_type'], after the empty aggregate was stored
      ELSE IF "instance_type" \notin DOMAIN rs[r].metadata
      THEN [error |-> "KeyError",
            im |-> Append(acc.im, [key |-> key, inst |-> NoCosts])]
      ELSE [acc EXCEPT !.im = Append(@,
              [key |-> key,
               inst |-> (field :> entry.max) @@
                        [Flavor |-> rs[r].metadata.instance_type,
                         ResourceId |-> entry.resource_id,
                         ProjectId |-> rs[r].project_id,
                         UserId |-> rs[r].user_id,
                         StartTime |-> entry.period_start,
                         EndTime |-> entry.period_end,
                         Duration |-> duration_iso,
                         Zone |-> zone_of(rs[r].metadata)]])]

\* a volume.size loop body that merges into the aggregate its key already has
volume_entry_merging(acc, entry, field, rs) ==
  LET key == <<entry.resource_id, entry.period_start, entry.period_end>>
      at == key_index(acc.im, key)
      r == find_resource(rs, entry.resource_id)
      inst == (field :> entry.max) @@
              [ResourceId |-> entry.resource_id,
               ProjectId |-> rs[r].project_id,
               UserId |-> rs[r].user_id,
               StartTime |-> entry.period_start,
               EndTime |-> entry.period_end,
               Duration |-> duration_iso,
               Zone |-> zone_of(rs[r].metadata)]
  IN  IF acc.error # "" THEN acc
      ELSE IF r = 0 THEN [acc EXCEPT !.error = "StopIteration"]
      ELSE IF at # 0
      THEN [acc EXCEPT !.im[at].inst = (field :> entry.max) @@ @]
      ELSE [acc EXCEPT !.im = Append(@, [key |-> key, inst |-> inst])]

\* the body of the volume.size loop for one entry
volume_entry(acc, entry, field, rs) ==
  LET key == <<entry.resource_id, entry.period_start, entry.period_end>>
      at == key_index(acc.im, key)
      r == find_resource(rs, entry.resource_id)
      inst == (field :> entry.max) @@
              [ResourceId |-> entry.resource_id,
               ProjectId |-> rs[r].project_id,
               UserId |-> rs[r].user_id,
               StartTime |-> entry.period_start,
               EndTime |-> entry.period_end,
               Duration |-> duration_iso,
               Zone |-> zone_of(rs[r].metadata)]
  IN  IF acc.error # "" THEN acc
      \* next(...) outside any try
      ELSE IF r = 0 THEN [acc EXCEPT !.error = "StopIteration"]
      ELSE IF at # 0
      THEN [acc EXCEPT !.im[at].inst = inst]
      ELSE [acc EXCEPT !.im = Append(@, [key |-> key, inst |-> inst])]

RECURSIVE compute_entries(_, _, _, _)
compute_entries(acc, entries, field, rs) ==
  IF entries = <<>> THEN acc
  ELSE compute_entries(compute_entry(acc, Head(entries), field, rs),
                       Tail(entries), field, rs)

RECURSIVE volume_entries(_, _, _, _)
volume_entries(acc, entries, field, rs) ==
  IF entries = <<>> THEN acc
  ELSE volume_entries(volume_entry(acc, Head(entries), field, rs),
                      Tail(entries), field, rs)

\* ----------------------------------------------------- gather_cloud_records
\* keystone's directory: the names behind the ids
ProjectNames == [p1 |-> "alpha"]
UserNames == [u1 |-> "alice", u2 |-> "bob"]
IdentityIds == DOMAIN ProjectNames \cup DOMAIN UserNames

RECURSIVE Pow2(_)
Pow2(n) == IF n = 0 THEN 1 ELSE 2 * Pow2(n - 1)

\* int(gigabytes * 2**32), kept in MiB (2**20 bytes): the model's integers
\* have 32 bits
allocated_disk(gigabytes) == gigabytes * Pow2(DiskShift - 20)

\* the deletion ledger's verdict on a resource: deleted strictly before
\* timestamp. The script holds no such test; the ledger is a fact of its
\* surroundings
deleted_before(resource_id, timestamp) ==
  /\ resource_id \in DOMAIN deleted_at
  /\ deleted_at[resource_id] # None
  /\ deleted_at[resource_id][1] < timestamp

\* crs.append(cr)
append_record(crs, cr) == Append(crs, cr)

\* a loop body that passes over an aggregate with no AllocatedDisk and not
\* both compute fields
gather_step_passing_over(acc, inst, costs, ok) ==
  LET uid == inst.UserId
      pid == inst.ProjectId
      \* IdentityCache.get_user, get_project: only an answer is cached
      user_found == uid \in acc.users \/ uid \in ok
      proj_found == pid \in acc.projects \/ pid \in ok
      seen == [acc EXCEPT
                 !.at = @ + 1,
                 !.lookups = @ + (IF uid \in acc.users THEN 0 ELSE 1)
                               + (IF pid \in acc.projects THEN 0 ELSE 1),
                 !.users = IF user_found THEN @ \cup {uid} ELSE @,
                 !.projects = IF proj_found THEN @ \cup {pid} ELSE @]
      is_compute == "AllocatedCPU" \in DOMAIN inst /\ "AllocatedMemory" \in DOMAIN inst
      counted == IF is_compute
                 THEN [seen EXCEPT !.num_compute = @ + 1]
                 ELSE [seen EXCEPT !.num_storage = @ + 1]
      \* user is None or proj is None: `next` is an expression, not `continue`;
      \* proj['project'] or user['user'] then raises TypeError
      finish(cr) ==
        IF ~proj_found \/ ~user_found
        THEN [counted EXCEPT !.error = "TypeError"]
        ELSE [counted EXCEPT !.crs = append_record(@,
                [Project |-> ProjectNames[pid], User |-> UserNames[uid],
                 InstanceId |-> inst.ResourceId, StartTime |-> inst.StartTime,
                 EndTime |-> inst.EndTime, Duration |-> inst.Duration,
                 Zone |-> inst.Zone, Site |-> Site, Region |-> Region] @@ cr)]
  IN  IF acc.error # "" THEN acc
      ELSE IF is_compute
      THEN IF "Flavor" \notin DOMAIN inst
           THEN [counted EXCEPT !.error = "KeyError"]
           ELSE LET c == lookup_compute(costs, inst.Flavor)
                IN  IF c.error # ""
                    THEN [counted EXCEPT !.error = c.error]
                    ELSE finish([kind |-> "ComputeRecord",
                                 Flavour |-> inst.Flavor, Cost |-> c.cost,
                                 AllocatedCPU |-> inst.AllocatedCPU,
                                 AllocatedMemory |-> inst.AllocatedMemory])
      \* gigabytes = inst['AllocatedDisk']: KeyError, printed and raised again
      ELSE IF "AllocatedDisk" \notin DOMAIN inst
           THEN counted
           ELSE finish([kind |-> "StorageRecord", StorageType |-> "Block",
                        Cost |-> lookup_block_storage(costs, inst.AllocatedDisk),
                        AllocatedDisk |-> allocated_disk(inst.AllocatedDisk)])

\* the loop body of gather_cloud_records for one aggregate; acc is
\* [error, crs, at, users, projects, lookups, num_compute, num_storage], ok
\* the ids keystone answers for
gather_step(acc, inst, costs, ok) ==
  LET uid == inst.UserId
      pid == inst.ProjectId
      \* IdentityCache.get_user, get_project: only an answer is cached
      user_found == uid \in acc.users \/ uid \in ok
      proj_found == pid \in acc.projects \/ pid \in ok
      seen == [acc EXCEPT
                 !.at = @ + 1,
                 !.lookups = @ + (IF uid \in acc.users THEN 0 ELSE 1)
                               + (IF pid \in acc.projects THEN 0 ELSE 1),
                 !.users = IF user_found THEN @ \cup {uid} ELSE @,
                 !.projects = IF proj_found THEN @ \cup {pid} ELSE @]
      is_compute == "AllocatedCPU" \in DOMAIN inst /\ "AllocatedMemory" \in DOMAIN inst
      counted == IF is_compute
                 THEN [seen EXCEPT !.num_compute = @ + 1]
                 ELSE [seen EXCEPT !.num_storage = @ + 1]
      \* user is None or proj is None: `next` is an expression, not `continue`;
      \* proj['project'] or user['user'] then raises TypeError
      finish(cr) ==
        IF ~proj_found \/ ~user_found
        THEN [counted EXCEPT !.error = "TypeError"]
        ELSE [counted EXCEPT !.crs = append_record(@,
                [Project |-> ProjectNames[pid], User |-> UserNames[uid],
                 InstanceId |-> inst.ResourceId, StartTime |-> inst.StartTime,
                 EndTime |-> inst.EndTime, Duration |-> inst.Duration,
                 Zone |-> inst.Zone, Site |-> Site, Region |-> Region] @@ cr)]
  IN  IF acc.error # "" THEN acc
      ELSE IF is_compute
      THEN IF "Flavor" \notin DOMAIN inst
           THEN [counted EXCEPT !.error = "KeyError"]
           ELSE LET c == lookup_compute(costs, inst.Flavor)
                IN  IF c.error # ""
                    THEN [counted EXCEPT !.error = c.error]
                    ELSE finish([kind |-> "ComputeRecord",
                                 Flavour |-> inst.Flavor, Cost |-> c.cost,
                                 AllocatedCPU |-> inst.AllocatedCPU,
                                 AllocatedMemory |-> inst.AllocatedMemory])
      \* gigabytes = inst['AllocatedDisk']: KeyError, printed and raised again
      ELSE IF "AllocatedDisk" \notin DOMAIN inst
           THEN [counted EXCEPT !.error = "KeyError"]
           ELSE finish([kind |-> "StorageRecord", StorageType |-> "Block",
                        Cost |-> lookup_block_storage(costs, inst.AllocatedDisk),
                        AllocatedDisk |-> allocated_disk(inst.AllocatedDisk)])

RECURSIVE gather_loop(_, _, _, _)
gather_loop(acc, im, costs, ok) ==
  IF im = <<>> THEN acc
  ELSE gather_loop(gather_step(acc, Head(im).inst, costs, ok), Tail(im), costs, ok)

\* gather_cloud_records after the flavors request
gather_cloud_records(im, costs, ok) ==
  gather_loop([error |-> "", crs |-> <<>>, at |-> 0, users |-> {},
               projects |-> {}, lookups |-> 0, num_compute |-> 0,
               num_storage |-> 0], im, costs, ok)

\* ------------------------------------------------------------------ MeterSet
\* the rows of a meters answer
MeterRow(name, res_id, proj_id, user_id) ==
  [name |-> name, resource_id |-> res_id, project_id |-> proj_id, user_id |-> user_id]
\* the answers ceilometer may give: none, the meters of one project, the
\* meters of two projects, a row without user_id, a row without name
MeterAnswers ==
  { <<>>,
    <<MeterRow("vcpus", "i1", "p1", "u1"), MeterRow("memory", "i1", "p1", "u1"),
      MeterRow("volume.size", "v1", "p1", "u1")>>,
    <<MeterRow("vcpus", "i1", "p1", "u1"), MeterRow("vcpus", "i2", "p2", "u2")>>,
    <<[name |-> "vcpus", resource_id |-> "i1", project_id |-> "p1"]>>,
    <<[resource_id |-> "i1", project_id |-> "p1", user_id |-> "u1"]>> }

\* meter['resource_id'], meter['project_id'], meter['user_id'] are all there
meter_complete(meter) ==
  {"resource_id", "project_id", "user_id"} \subseteq DOMAIN meter

\* the groups of itertools.groupby over the rows sorted by project_id
meter_projects(meters) ==
  IF \A n \in DOMAIN meters : meter_complete(meters[n])
  THEN {meters[n].project_id : n \in DOMAIN meters}
  ELSE {}

\* the project ids of the answers in the order sorted() gives them
SortedProjectIds == <<"p1", "p2">>

\* the loop over the groups of itertools.groupby: one GET projects/<id> per
\* group; for a project keystone answers 200 for, the filter reads x['name']
\* of each row of the group, and a row without it raises KeyError
RECURSIVE group_loop(_, _, _, _)
group_loop(proj_ids, meters, project_status, acc) ==
  IF proj_ids = <<>> THEN acc
  ELSE LET proj_id == Head(proj_ids)
           sent == [acc EXCEPT !.requests = @ + 1]
       IN  IF proj_id \notin meter_projects(meters)
           THEN group_loop(Tail(proj_ids), meters, project_status, acc)
           ELSE IF http_category(project_status[proj_id]) # 200
           THEN group_loop(Tail(proj_ids), meters, project_status, sent)
           ELSE IF \E n \in DOMAIN meters :
                     /\ meters[n].project_id = proj_id
                     /\ "name" \notin DOMAIN meters[n]
           THEN [sent EXCEPT !.error = "KeyError"]
           ELSE group_loop(Tail(proj_ids), meters, project_status,
                           [sent EXCEPT !.valid_meters_by_project = @ \cup {proj_id}])

\* MeterSet.__init__ after the meters answer: what it raises, the requests it
\* sends to keystone, the projects it keeps
MeterSet_init(meters, project_status) ==
  IF \E n \in DOMAIN meters : ~meter_complete(meters[n])
  THEN [error |-> "KeyError", requests |-> 0, valid_meters_by_project |-> {}]
  ELSE group_loop(SortedProjectIds, meters, project_status,
                  [error |-> "", requests |-> 0, valid_meters_by_project |-> {}])

\* ------------------------------------------------------- statistics filter
\* a filter whose lower bound takes the period start in
stat_params_from_start(period_start_, period_end_) ==
  <<[field |-> "timestamp", op |-> "ge", value |-> period_start_],
    [field |-> "timestamp", op |-> "le", value |-> period_end_]>>

\* populate_instances: the q.field, q.op, q.value triples of stat_params
stat_params(period_start_, period_end_) ==
  <<[field |-> "timestamp", op |-> "gt", value |-> period_start_],
    [field |-> "timestamp", op |-> "le", value |-> period_end_]>>

\* ceilometer's reading of one triple, and of a query: all triples hold
q_holds(q, timestamp) ==
  IF q.op = "gt" THEN timestamp > q.value
  ELSE IF q.op = "ge" THEN timestamp >= q.value
  ELSE IF q.op = "lt" THEN timestamp < q.value
  ELSE IF q.op = "le" THEN timestamp <= q.value
  ELSE timestamp = q.value
selects(params, timestamp) ==
  \A n \in DOMAIN params : q_holds(params[n], timestamp)

\* no sample under study
NoSample == [a |-> 0, b |-> 0, c |-> 0, t |-> 0, queried |-> {}, selected_by |-> {}]
\* cursor values a < b < c and a sample timestamp t
Samples ==
  {[a |-> a, b |-> b, c |-> c, t |-> t, queried |-> {}, selected_by |-> {}] :
     a \in 0..MaxStamp, b \in 0..MaxStamp, c \in 0..MaxStamp, t \in 0..MaxStamp}
\* the run of window n puts its filter to the sample
note_query(smp, n, period_start_, period_end_) ==
  [smp EXCEPT !.queried = @ \cup {n},
              !.selected_by =
                 IF selects(stat_params(period_start_, period_end_), smp.t)
                 THEN @ \cup {n} ELSE @]

\* ------------------------------------------------------------ IdentityCache
\* IdentityCache.__init__
IdentityCache == [users |-> <<>>, projects |-> <<>>]

\* json.loads(ar.text) of a keystone answer
user_json(user_id) == Some(UserNames[user_id])
project_json(project_id) == Some(ProjectNames[project_id])

\* IdentityCache.get_project with keystone answering status: the cache after
\* the call, what the call returns, the requests it sent
get_project(cache, project_id, status) ==
  IF project_id \in DOMAIN cache.projects
  THEN [cache |-> cache, res |-> cache.projects[project_id], sent |-> 0]
  ELSE IF http_category(status) # 200
       THEN [cache |-> cache, res |-> None, sent |-> 1]
       ELSE LET res == project_json(project_id)
            IN  [cache |-> [cache EXCEPT !.projects = @ @@ (project_id :> res)],
                 res |-> res, sent |-> 1]

\* a get_user that remembers a refusal too
get_user_caching_misses(cache, user_id, status) ==
  IF user_id \in DOMAIN cache.users
  THEN [cache |-> cache, res |-> cache.users[user_id], sent |-> 0]
  ELSE LET res == IF http_category(status) # 200 THEN None
                  ELSE user_json(user_id)
       IN  [cache |-> [cache EXCEPT !.users = @ @@ (user_id :> res)],
            res |-> res, sent |-> 1]

\* IdentityCache.get_user with keystone answering status
get_user(cache, user_id, status) ==
  IF user_id \in DOMAIN cache.users
  THEN [cache |-> cache, res |-> cache.users[user_id], sent |-> 0]
  ELSE IF http_category(status) # 200
       THEN [cache |-> cache, res |-> None, sent |-> 1]
       ELSE LET res == user_json(user_id)
            IN  [cache |-> [cache EXCEPT !.users = @ @@ (user_id :> res)],
                 res |-> res, sent |-> 1]

\* the caller's notes: per id the requests sent, the calls that returned
\* None, what the first and the latest call returned
CacheKeys == {<<"users", u>> : u \in DOMAIN UserNames}
               \cup {<<"projects", p>> : p \in DOMAIN ProjectNames}
Unasked == <<"unasked", "">>
NotAsked == [calls |-> 0,
             sent |-> [k \in CacheKeys |-> 0],
             misses |-> [k \in CacheKeys |-> 0],
             first |-> [k \in CacheKeys |-> Unasked],
             last |-> [k \in CacheKeys |-> Unasked]]
note_call(a, k, r) ==
  [a EXCEPT !.calls = @ + 1,
            !.sent[k] = @ + r.sent,
            !.misses[k] = @ + (IF r.res = None THEN 1 ELSE 0),
            !.first[k] = IF @ = Unasked THEN r.res ELSE @,
            !.last[k] = r.res]

\* ------------------------------------------------------ write_cloud_records
\* `cr is ComputeRecord`, `cr is StorageRecord`: an instance is never its class
is_class(cr, class) == FALSE

\* the children of the CloudRecords element
root_children(records) ==
  SelectSeq(records, LAMBDA cr : is_class(cr, "ComputeRecord"))
    \o SelectSeq(records, LAMBDA cr : is_class(cr, "StorageRecord"))

\* strftime('%Y%m%dT%H%MZ.xml'): the name keeps the minute
xml_leaf_name(t) == <<t \div TicksPerHour, t % TicksPerHour, ".xml">>

\* a rename-into-place writer: nothing shows in records/ until the file is whole
open_record_file_aside(fs, datetime_of_run) == fs

\* open(xml_filename, 'w'): the file is there, and empty, from here on
open_record_file(fs, datetime_of_run) ==
  {f \in fs : f.name # xml_leaf_name(datetime_of_run)}
    \cup {[name |-> xml_leaf_name(datetime_of_run), body |-> <<>>,
            complete |-> FALSE]}

\* records/ once write_cloud_records has returned: tree.write(f), and the
\* `with` block closes the file
write_cloud_records(fs, datetime_of_run, records) ==
  {f \in fs : f.name # xml_leaf_name(datetime_of_run)}
    \cup {[name |-> xml_leaf_name(datetime_of_run), body |-> root_children(records),
            complete |-> TRUE]}

\* ------------------------------------------------------------------ actions
NoLedger == [r \in {} |-> None]
\* the deletion ledger of a run whose window opens at start: nothing deleted,
\* or the volume deleted one tick before the window opens, or as it opens
Ledgers(start) ==
  {NoLedger} \cup {("v1" :> Some(t)) : t \in {start - 1, start} \cap Nat}

\* ComputeRecord.recordid, StorageRecord.recordid:
\* "ssc/%s/cr/%s/%s" or "ssc/%s/sr/%s/%s" of Site, InstanceId and
\* EndTime.timestamp
recordid(cr) ==
  <<"ssc", cr.Site, IF cr.kind = "ComputeRecord" THEN "cr" ELSE "sr",
    cr.InstanceId, cr.EndTime>>

\* the journal of an observer: the record ids of the runs completed so far and
\* the meters whose statistics this run was refused (the status the script
\* prints); nobody keeps it where on is FALSE
Journal(on) == [on |-> on, emitted |-> {}, skipped |-> {}]

note_skipped(j, meter) ==
  IF j.on THEN [j EXCEPT !.skipped = @ \cup {meter}] ELSE j

note_emitted(j, records) ==
  IF j.on
  THEN [j EXCEPT !.emitted = @ \cup {recordid(records[i]) : i \in 1..Len(records)}]
  ELSE j

note_new_run(j) == [j EXCEPT !.skipped = {}]

RunLocalsInit ==
  /\ do_singlestep = FALSE
  /\ flavor_costs = NoCosts
  /\ last_timepoint = None
  /\ period_start = 0
  /\ period_end = 0
  /\ planned = FALSE
  /\ resources = <<>>
  /\ instance_measurements = <<>>
  /\ cloud_records = <<>>
  /\ gather_at = 0
  /\ lookups = 0
  /\ deleted_at = NoLedger
  /\ error = ""
  /\ calls = 0
  /\ at_start = [state_file |-> None, files |-> {}]

Init ==
  /\ \/ /\ now \in 0..MaxNow
        /\ state_file \in {None} \cup {Some(c) : c \in 0..MaxCursor}
     \/ /\ now = Outage
        /\ state_file = None
  /\ cost_file \in CostFiles
  /\ files = {}
  /\ runs = 0
  /\ waited = 0
  /\ windows = <<>>
  /\ pc = "idle"
  /\ RunLocalsInit
  /\ journal = Journal(FALSE)
  /\ identity_cache = IdentityCache
  /\ asked = NotAsked
  /\ sampled = NoSample

\* an observed site: no cursor yet, every price in the cost table, the first
\* run one hour after the epoch
InitObserved ==
  /\ now = EPOCH + TicksPerHour
  /\ state_file = None
  /\ cost_file = [exists |-> TRUE,
                  regions |-> (Region :> [k \in PricingKeys |-> PriceOf(k)])]
  /\ files = {}
  /\ runs = 0
  /\ waited = 0
  /\ windows = <<>>
  /\ pc = "idle"
  /\ RunLocalsInit
  /\ journal = Journal(TRUE)
  /\ identity_cache = IdentityCache
  /\ asked = NotAsked
  /\ sampled = NoSample

\* an error exit that writes the cursor on its way out
Raise_and_commit(code) ==
  /\ pc' = "failed"
  /\ error' = code
  /\ last_timepoint' = Some(period_end)
  /\ state_file' = last_timepoint'
  /\ UNCHANGED files

\* an exception leaves main(): nothing below the raising line runs
Raise(code) ==
  /\ pc' = "failed"
  /\ error' = code
  /\ UNCHANGED <<state_file, files, last_timepoint>>

\* main() up to the window: the options, the cost table, the cursor, the clock
Begin(singlestep) ==
  /\ pc = "idle"
  /\ runs' = runs + 1
  /\ do_singlestep' = singlestep
  /\ at_start' = [state_file |-> state_file, files |-> files]
  /\ LET cd == CostDefinition_init(cost_file, Region)
         tp == PersistentState_init(state_file)
         w == main_window(tp, now, singlestep)
     IN  IF cd.error # ""
         THEN /\ Raise(cd.error)
              /\ UNCHANGED <<flavor_costs, period_start, period_end, planned>>
         ELSE /\ flavor_costs' = cd.flavor_costs
              /\ last_timepoint' = tp
              /\ period_start' = w.period_start
              /\ period_end' = w.period_end
              /\ planned' = TRUE
              /\ pc' = IF w.work THEN "openstack" ELSE "nowork"
              /\ UNCHANGED <<state_file, files, error>>
  /\ UNCHANGED <<now, cost_file, waited, windows, resources, instance_measurements,
                 cloud_records, gather_at, lookups, deleted_at, calls>>
  /\ UNCHANGED journal
  /\ UNCHANGED <<identity_cache, asked, sampled>>

\* OpenStack.__init__: GET keystone, POST auth/tokens
OpenStackInit ==
  /\ pc = "openstack"
  /\ \E s1 \in StatusCodes, s2 \in StatusCodes :
       IF http_category(s1) # 200
       THEN Raise("E1000") /\ calls' = calls + 1
       ELSE IF http_category(s2) # 200
            THEN Raise("E1001") /\ calls' = calls + 2
            ELSE /\ pc' = "meterset"
                 /\ calls' = calls + 2
                 /\ UNCHANGED <<state_file, files, last_timepoint, error>>
  /\ UNCHANGED <<now, cost_file, runs, waited, windows, do_singlestep, flavor_costs,
                 period_start, period_end, planned, resources,
                 instance_measurements, cloud_records, gather_at, lookups,
                 deleted_at, at_start>>
  /\ UNCHANGED journal
  /\ UNCHANGED <<identity_cache, asked, sampled>>

\* MeterSet.__init__: GET meters, then one GET projects/<id> for each distinct
\* project_id of the answer. A row without resource_id, project_id or user_id
\* raises KeyError before any project is asked for, a row without name when
\* its project has answered 200. main() does not use the object it builds
MeterSetInit ==
  /\ pc = "meterset"
  /\ \E s \in StatusCodes :
       IF http_category(s) # 200
       THEN /\ Raise("E1002")
            /\ calls' = calls + 1
       ELSE \E meters \in MeterAnswers :
              \E project_status \in [meter_projects(meters) -> StatusCodes] :
                LET r == MeterSet_init(meters, project_status)
                IN  /\ calls' = calls + 1 + r.requests
                    /\ IF r.error # ""
                       THEN Raise(r.error)
                       ELSE /\ pc' = "resources"
                            /\ UNCHANGED <<state_file, files, last_timepoint, error>>
  /\ UNCHANGED <<now, cost_file, runs, waited, windows, do_singlestep, flavor_costs,
                 period_start, period_end, planned, resources,
                 instance_measurements, cloud_records, gather_at, lookups,
                 deleted_at, at_start>>
  /\ UNCHANGED journal
  /\ UNCHANGED <<identity_cache, asked, sampled>>

\* populate_instances: GET resources. ledger is what the deletion ledger holds
\* of these resources as the run meets them: the script never reads it
PopulateResources ==
  /\ pc = "resources"
  /\ calls' = calls + 1
  /\ \E s \in StatusCodes :
       IF http_category(s) # 200
       THEN Raise("E1004") /\ UNCHANGED <<resources, deleted_at>>
       ELSE \E ledger \in Ledgers(period_start) :
              /\ resources' = Inventory
              /\ deleted_at' = ledger
              /\ pc' = "vcpus"
              /\ UNCHANGED <<state_file, files, last_timepoint, error>>
  /\ UNCHANGED <<now, cost_file, runs, waited, windows, do_singlestep, flavor_costs,
                 period_start, period_end, planned, instance_measurements,
                 cloud_records, gather_at, lookups, at_start>>
  /\ UNCHANGED journal
  /\ UNCHANGED <<identity_cache, asked, sampled>>

\* populate_instances: the statistics of vcpus, then of memory
PopulateCompute(meter, field, after) ==
  /\ pc = meter
  /\ calls' = calls + 1
  /\ \E s \in StatusCodes :
       IF http_category(s) = 200
       THEN \E entries \in StatAnswers(meter, period_start, period_end) :
              LET r == compute_entries([error |-> "", im |-> instance_measurements],
                                       entries, field, resources)
              IN  /\ instance_measurements' = r.im
                  /\ UNCHANGED journal
                  /\ IF r.error # ""
                     THEN Raise(r.error)
                     ELSE /\ pc' = after
                          /\ UNCHANGED <<state_file, files, last_timepoint, error>>
       ELSE /\ pc' = after
            /\ journal' = note_skipped(journal, meter)
            /\ UNCHANGED <<instance_measurements, state_file, files,
                           last_timepoint, error>>
  /\ UNCHANGED <<now, cost_file, runs, waited, windows, do_singlestep, flavor_costs,
                 period_start, period_end, planned, resources, cloud_records,
                 gather_at, lookups, deleted_at, at_start>>
  /\ UNCHANGED <<identity_cache, asked, sampled>>

\* a volume.size step that gives the run up when its query is refused
PopulateVolume_aborting ==
  /\ pc = "volume.size"
  /\ calls' = calls + 1
  /\ \E s \in StatusCodes :
       IF http_category(s) = 200
       THEN \E entries \in StatAnswers("volume.size", period_start, period_end) :
              LET r == volume_entries([error |-> "", im |-> instance_measurements],
                                      entries, "AllocatedDisk", resources)
              IN  /\ instance_measurements' = r.im
                  /\ UNCHANGED journal
                  /\ IF r.error # ""
                     THEN Raise(r.error)
                     ELSE /\ pc' = "gather"
                          /\ UNCHANGED <<state_file, files, last_timepoint, error>>
       ELSE /\ Raise("E1004")
            /\ journal' = note_skipped(journal, "volume.size")
            /\ UNCHANGED instance_measurements
  /\ UNCHANGED <<now, cost_file, runs, waited, windows, do_singlestep, flavor_costs,
                 period_start, period_end, planned, resources, cloud_records,
                 gather_at, lookups, deleted_at, at_start>>
  /\ UNCHANGED <<identity_cache, asked, sampled>>

\* populate_instances: the statistics of volume.size
PopulateVolume ==
  /\ pc = "volume.size"
  /\ calls' = calls + 1
  /\ \E s \in StatusCodes :
       IF http_category(s) = 200
       THEN \E entries \in StatAnswers("volume.size", period_start, period_end) :
              LET r == volume_entries([error |-> "", im |-> instance_measurements],
                                      entries, "AllocatedDisk", resources)
              IN  /\ instance_measurements' = r.im
                  /\ UNCHANGED journal
                  /\ IF r.error # ""
                     THEN Raise(r.error)
                     ELSE /\ pc' = "gather"
                          /\ UNCHANGED <<state_file, files, last_timepoint, error>>
       ELSE /\ pc' = "gather"
            /\ journal' = note_skipped(journal, "volume.size")
            /\ UNCHANGED <<instance_measurements, state_file, files,
                           last_timepoint, error>>
  /\ UNCHANGED <<now, cost_file, runs, waited, windows, do_singlestep, flavor_costs,
                 period_start, period_end, planned, resources, cloud_records,
                 gather_at, lookups, deleted_at, at_start>>
  /\ UNCHANGED <<identity_cache, asked, sampled>>

\* gather_cloud_records: GET flavors, then one record per aggregate; ok is
\* the set of ids keystone answers for
GatherCloudRecords ==
  /\ pc = "gather"
  /\ \E s \in StatusCodes :
       IF http_category(s) # 200
       THEN /\ Raise("E1003")
            /\ calls' = calls + 1
            /\ UNCHANGED <<cloud_records, gather_at, lookups>>
       ELSE \E ok \in SUBSET IdentityIds :
              LET r == gather_cloud_records(instance_measurements, flavor_costs, ok)
              IN  /\ cloud_records' = r.crs
                  /\ gather_at' = r.at
                  /\ lookups' = r.lookups
                  /\ calls' = calls + 1 + r.lookups
                  /\ IF r.error # ""
                     THEN Raise(r.error)
                     ELSE /\ pc' = "write"
                          /\ UNCHANGED <<state_file, files, last_timepoint, error>>
  /\ UNCHANGED <<now, cost_file, runs, waited, windows, do_singlestep, flavor_costs,
                 period_start, period_end, planned, resources,
                 instance_measurements, deleted_at, at_start>>
  /\ UNCHANGED journal
  /\ UNCHANGED <<identity_cache, asked, sampled>>

\* write_cloud_records up to open(xml_filename, 'w'): the element tree is
\* built, the file is created or truncated in place
OpenRecordFile ==
  /\ pc = "write"
  /\ files' = open_record_file(files, period_end)
  /\ pc' = "writing"
  /\ UNCHANGED <<now, state_file, cost_file, runs, waited, windows,
                 do_singlestep, flavor_costs, last_timepoint, period_start,
                 period_end, planned, resources, instance_measurements,
                 cloud_records, gather_at, lookups, deleted_at, error, calls,
                 at_start>>
  /\ UNCHANGED journal
  /\ UNCHANGED <<identity_cache, asked, sampled>>

\* main(), after the records: write_cloud_records(cfg, period_end,
\* cloud_records), then persistent_state.last_timepoint = period_end; the call
\* of persistent_state.write() that follows is commented out, so the state
\* file stays as it is
WriteAndCommit ==
  /\ pc = "writing"
  /\ files' = write_cloud_records(files, period_end, cloud_records)
  /\ last_timepoint' = Some(period_end)
  /\ journal' = note_emitted(journal, cloud_records)
  /\ windows' = Append(windows, [start |-> period_start, end |-> period_end])
  /\ pc' = "done"
  /\ UNCHANGED <<now, state_file, cost_file, runs, waited, do_singlestep,
                 flavor_costs, period_start, period_end, planned, resources,
                 instance_measurements, cloud_records, gather_at, lookups,
                 deleted_at, error, calls, at_start>>
  /\ UNCHANGED <<identity_cache, asked, sampled>>

\* the process has ended; cron starts the next one d ticks later
Wait(d) ==
  /\ pc \in {"done", "nowork", "failed"}
  /\ waited + d <= MaxWaited
  /\ waited' = waited + d
  /\ now' = now + d
  /\ pc' = "idle"
  /\ do_singlestep' = FALSE
  /\ flavor_costs' = NoCosts
  /\ last_timepoint' = None
  /\ period_start' = 0
  /\ period_end' = 0
  /\ planned' = FALSE
  /\ resources' = <<>>
  /\ instance_measurements' = <<>>
  /\ cloud_records' = <<>>
  /\ gather_at' = 0
  /\ lookups' = 0
  /\ deleted_at' = NoLedger
  /\ error' = ""
  /\ calls' = 0
  /\ at_start' = [state_file |-> None, files |-> {}]
  /\ journal' = note_new_run(journal)
  /\ UNCHANGED <<state_file, cost_file, files, runs, windows>>
  /\ UNCHANGED <<identity_cache, asked, sampled>>

Next ==
  \/ \E singlestep \in BOOLEAN : Begin(singlestep)
  \/ OpenStackInit
  \/ MeterSetInit
  \/ PopulateResources
  \/ PopulateCompute("vcpus", "AllocatedCPU", "memory")
  \/ PopulateCompute("memory", "AllocatedMemory", "volume.size")
  \/ PopulateVolume
  \/ GatherCloudRecords
  \/ OpenRecordFile
  \/ WriteAndCommit
  \/ \E d \in 1..MaxWaited : Wait(d)

Spec == Init /\ [][Next]_vars

\* the same runs, at an observed site
SpecObserved == InitObserved /\ [][Next]_vars

\* one IdentityCache, called from outside for users and projects in any order
GetUser ==
  /\ asked.calls < MaxCalls
  /\ \E user_id \in DOMAIN UserNames, s \in StatusCodes :
       LET r == get_user(identity_cache, user_id, s)
       IN  /\ identity_cache' = r.cache
           /\ asked' = note_call(asked, <<"users", user_id>>, r)
  /\ UNCHANGED run_vars
  /\ UNCHANGED sampled

GetProject ==
  /\ asked.calls < MaxCalls
  /\ \E project_id \in DOMAIN ProjectNames, s \in StatusCodes :
       LET r == get_project(identity_cache, project_id, s)
       IN  /\ identity_cache' = r.cache
           /\ asked' = note_call(asked, <<"projects", project_id>>, r)
  /\ UNCHANGED run_vars
  /\ UNCHANGED sampled

NextCache == GetUser \/ GetProject

SpecCache == InitObserved /\ [][NextCache]_vars

\* the statistics filters of two runs with the windows (a, b] and (b, c],
\* put to one sample
InitFilter ==
  /\ now = EPOCH + TicksPerHour
  /\ state_file = None
  /\ cost_file = [exists |-> TRUE,
                  regions |-> (Region :> [k \in PricingKeys |-> PriceOf(k)])]
  /\ files = {}
  /\ runs = 0
  /\ waited = 0
  /\ windows = <<>>
  /\ pc = "idle"
  /\ RunLocalsInit
  /\ journal = Journal(FALSE)
  /\ identity_cache = IdentityCache
  /\ asked = NotAsked
  /\ sampled \in {smp \in Samples : smp.a < smp.b /\ smp.b < smp.c}

QueryFirstWindow ==
  /\ 1 \notin sampled.queried
  /\ sampled' = note_query(sampled, 1, sampled.a, sampled.b)
  /\ UNCHANGED run_vars
  /\ UNCHANGED <<identity_cache, asked>>

QuerySecondWindow ==
  /\ 2 \notin sampled.queried
  /\ sampled' = note_query(sampled, 2, sampled.b, sampled.c)
  /\ UNCHANGED run_vars
  /\ UNCHANGED <<identity_cache, asked>>

NextFilter == QueryFirstWindow \/ QuerySecondWindow

SpecFilter == InitFilter /\ [][NextFilter]_vars

\* ------------------------------------------------------------------- claims
Min(a, b) == IF a < b THEN a ELSE b

\* the cursor a run found, or the fallback epoch
StartOf(file) == IF file = None THEN EPOCH ELSE file[1]

\* the run got through gather_cloud_records
Gathered == pc \in {"write", "writing", "done"}

\* gather_cloud_records raised while it worked on aggregate gather_at
RaisedAt(i) == pc = "failed" /\ gather_at = i /\ i > 0

HasBoth(inst) ==
  "AllocatedCPU" \in DOMAIN inst /\ "AllocatedMemory" \in DOMAIN inst
HasOnlyDisk(inst) ==
  /\ "AllocatedDisk" \in DOMAIN inst
  /\ "AllocatedCPU" \notin DOMAIN inst
  /\ "AllocatedMemory" \notin DOMAIN inst

\* the records of one class made for an aggregate
RecordsFor(inst, class) ==
  {j \in 1..Len(cloud_records) :
     /\ cloud_records[j].kind = class
     /\ cloud_records[j].InstanceId = inst.ResourceId
     /\ cloud_records[j].StartTime = inst.StartTime
     /\ cloud_records[j].EndTime = inst.EndTime}

\* C1: the windows of the successive completed runs are gap-free and do not
\* overlap: each starts where the one before ended.
C1_WindowsContiguous ==
  \A i \in 1..(Len(windows) - 1) : windows[i + 1].start = windows[i].end

\* C2: after a run that completed every stage, the state file holds that
\* run's period_end, which is what the next process start reads.
C2_CursorPersisted ==
  pc = "done" => PersistentState_init(state_file) = Some(period_end)

\* C3: a run whose clock, floored to the hour, is not after period_start ends
\* as "no work": no request sent, no record file written, the state file as
\* the run found it; so does every such run after it.
C3_NoWorkNoTrace ==
  (planned /\ floor_hour(now) <= period_start) =>
     /\ pc = "nowork"
     /\ error = ""
     /\ calls = 0
     /\ files = at_start.files
     /\ state_file = at_start.state_file
     /\ period_start = StartOf(at_start.state_file)

\* a second run in a row that finds no work and leaves records/ empty
C3_Witness ==
  /\ pc = "nowork"
  /\ runs >= 2
  /\ floor_hour(now) <= period_start
  /\ files = {}

\* C4: a run ended by a fatal error leaves the state file as it found it, and
\* a run started from it computes the same period_start.
C4_FatalKeepsCursor ==
  pc = "failed" =>
     /\ state_file = at_start.state_file
     /\ planned =>
          main_window(PersistentState_init(state_file), now,
                      do_singlestep).period_start = period_start

\* a run with a cursor on file that dies of KeyError among its aggregates
C4_Witness ==
  /\ pc = "failed"
  /\ error = "KeyError"
  /\ gather_at > 0
  /\ state_file # None

\* C6: an aggregate with both AllocatedCPU and AllocatedMemory yields exactly
\* one ComputeRecord, one with only AllocatedDisk exactly one StorageRecord,
\* and any other raises and yields no record.
C6_ClassifiedExactlyOnce ==
  \A i \in 1..gather_at :
    LET inst == instance_measurements[i].inst
    IN  /\ HasBoth(inst) =>
             Cardinality(RecordsFor(inst, "ComputeRecord")) = 1 /\ ~RaisedAt(i)
        /\ HasOnlyDisk(inst) =>
             Cardinality(RecordsFor(inst, "StorageRecord")) = 1 /\ ~RaisedAt(i)
        /\ (~HasBoth(inst) /\ ~HasOnlyDisk(inst)) =>
             /\ RaisedAt(i)
             /\ RecordsFor(inst, "ComputeRecord") = {}
             /\ RecordsFor(inst, "StorageRecord") = {}

\* C7: when gather_cloud_records returns, a resource deleted before
\* period_start has no record for the window, and every other resource with an
\* aggregate has one.
C7_DeletedExcluded ==
  Gathered =>
    \A i \in 1..Len(instance_measurements) :
      LET inst == instance_measurements[i].inst
          recs == RecordsFor(inst, "ComputeRecord") \cup RecordsFor(inst, "StorageRecord")
      IN  IF deleted_before(inst.ResourceId, period_start)
          THEN recs = {}
          ELSE recs # {}

\* C8: a compute aggregate whose flavor the cost table lacks still gets its
\* ComputeRecord, with Cost 0, and gather_cloud_records does not raise on it.
C8_MissingFlavorCostsZero ==
  \A i \in 1..gather_at :
    LET inst == instance_measurements[i].inst
    IN  (HasBoth(inst) /\ inst.Flavor \notin DOMAIN flavor_costs) =>
          /\ ~(RaisedAt(i) /\ error = "NameError")
          /\ (Gathered =>
                \E j \in RecordsFor(inst, "ComputeRecord") : cloud_records[j].Cost = 0)

\* C9 as stated: in single-step mode a run whose floored clock is after
\* period_start processes [period_start, min(period_start + 1h, floor_hour(now))).
C9_SingleStepNarrow ==
  (planned /\ do_singlestep /\ floor_hour(now) > period_start) =>
     /\ pc # "nowork"
     /\ period_end = Min(period_start + Hour, floor_hour(now))

\* C9 as amended: in single-step mode a run whose floored clock is at least
\* one hour after period_start processes exactly [period_start, period_start
\* + 1h); one whose floored clock is after period_start by less than an hour
\* returns without processing anything.
C9_SingleStepHourOrNothing ==
  (planned /\ do_singlestep /\ floor_hour(now) > period_start) =>
     /\ period_start = StartOf(at_start.state_file)
     /\ IF floor_hour(now) >= period_start + Hour
        THEN pc # "nowork" /\ period_end = period_start + Hour
        ELSE pc = "nowork" /\ calls = 0 /\ files = at_start.files

\* a single-step run that finds less than an hour after its cursor
C9_Witness ==
  /\ planned
  /\ do_singlestep
  /\ pc = "nowork"
  /\ floor_hour(now) > period_start

\* C10 as stated: in catch-up mode the processed window is at most 24 hours
\* long and ends no later than floor_hour(now).
C10_CatchUpBounded ==
  (planned /\ ~do_singlestep /\ pc # "nowork") =>
     /\ period_end - period_start <= 24 * TicksPerHour
     /\ period_end <= floor_hour(now)

\* C10 as amended: in catch-up mode a run whose floored clock is after
\* period_start processes [period_start, floor_hour(now)), however long.
C10_CatchUpToNow ==
  (planned /\ ~do_singlestep /\ floor_hour(now) > period_start) =>
     /\ pc # "nowork"
     /\ period_start = StartOf(at_start.state_file)
     /\ period_end = floor_hour(now)

\* a completed catch-up run whose window is longer than 24 hours
C10_Witness ==
  /\ planned
  /\ ~do_singlestep
  /\ pc = "done"
  /\ period_end - period_start > 24 * TicksPerHour

\* C11 as stated: with the cursor absent, period_start is three weeks before
\* the current time, and a single step processes the hour that starts there.
C11_FallbackThreeWeeksBack ==
  (planned /\ at_start.state_file = None) =>
     /\ period_start = floor_hour(now) - ThreeWeeks
     /\ (do_singlestep /\ pc # "nowork") =>
          period_end = replace_hours_plus_1(floor_hour(now) - ThreeWeeks)

\* C11 as amended: with the cursor absent, period_start is the fixed epoch
\* 2015-01-01T00:00Z whatever the clock reads, and a single step that finds
\* work processes the first hour after the epoch.
C11_FallbackFixedEpoch ==
  (planned /\ at_start.state_file = None) =>
     /\ period_start = EPOCH
     /\ (do_singlestep /\ pc # "nowork") =>
          period_end = replace_hours_plus_1(EPOCH)

\* a completed single-step run without a cursor, started more than three
\* weeks after the epoch
C11_Witness ==
  /\ planned
  /\ at_start.state_file = None
  /\ do_singlestep
  /\ pc = "done"
  /\ now > EPOCH + ThreeWeeks
  /\ windows[Len(windows)] = [start |-> EPOCH, end |-> replace_hours_plus_1(EPOCH)]

\* the records of one class, in the order gather_cloud_records returned them
OfKind(records, class) == SelectSeq(records, LAMBDA cr : cr.kind = class)

\* C12: the file a completed run wrote holds every record the run gathered
\* exactly once, all compute records before all storage records.
C12_FileHoldsEveryRecord ==
  pc = "done" =>
    \E f \in files :
      /\ f.name = xml_leaf_name(period_end)
      /\ f.body = OfKind(cloud_records, "ComputeRecord")
                    \o OfKind(cloud_records, "StorageRecord")

\* C13: the records a run gathers have record ids that differ from one
\* another and from the id of every record an earlier run emitted.
C13_RecordIdsUnique ==
  pc \in {"write", "writing"} =>
    /\ \A i, j \in 1..Len(cloud_records) :
         i # j => recordid(cloud_records[i]) # recordid(cloud_records[j])
    /\ \A i \in 1..Len(cloud_records) :
         recordid(cloud_records[i]) \notin journal.emitted

\* C14 as stated: whoever lists records/ at any moment finds every file there
\* complete; no partly written file is ever to be seen.
C14_NoPartialFileSeen ==
  \A f \in files : f.complete

\* C14 as amended: write_cloud_records writes in place. From open() until it
\* returns, the file of the window is in records/ and incomplete; no other
\* file is ever incomplete, and once the run is done its file is complete.
C14_WrittenInPlace ==
  /\ pc = "writing" =>
       \E f \in files : f.name = xml_leaf_name(period_end) /\ ~f.complete
  /\ \A f \in files :
       ~f.complete => pc = "writing" /\ f.name = xml_leaf_name(period_end)
  /\ pc = "done" =>
       \E f \in files : f.name = xml_leaf_name(period_end) /\ f.complete

\* a second run has opened the file its predecessor had completed: the
\* complete file is gone and an empty one stands in its place
C14_Witness ==
  /\ pc = "writing"
  /\ Len(windows) >= 1
  /\ windows[Len(windows)].end = period_end
  /\ \E f \in files : f.name = xml_leaf_name(period_end) /\ ~f.complete

\* every field of aggregate old is a field of aggregate new, with its value
Kept(old, new) ==
  \A f \in DOMAIN old : f \in DOMAIN new /\ new[f] = old[f]

ComputeFields == {"Flavor", "AllocatedCPU", "AllocatedMemory"}

\* a step that leaves every aggregate in place with every field it had
KeepsAggregates ==
  \A i \in 1..Len(instance_measurements) :
    /\ i <= Len(instance_measurements')
    /\ instance_measurements'[i].key = instance_measurements[i].key
    /\ Kept(instance_measurements[i].inst, instance_measurements'[i].inst)

\* a step that leaves every aggregate as it was or puts a fresh one, with
\* AllocatedDisk and without the compute fields, in its place
KeepsOrReplacesAggregates ==
  \A i \in 1..Len(instance_measurements) :
    /\ i <= Len(instance_measurements')
    /\ instance_measurements'[i].key = instance_measurements[i].key
    /\ \/ instance_measurements'[i].inst = instance_measurements[i].inst
       \/ /\ "AllocatedDisk" \in DOMAIN instance_measurements'[i].inst
          /\ DOMAIN instance_measurements'[i].inst \cap ComputeFields = {}

PopulateStepKeeps ==
  pc \in {"vcpus", "memory", "volume.size"} => KeepsAggregates

PopulateStepKeepsOrReplaces ==
  /\ pc \in {"vcpus", "memory"} => KeepsAggregates
  /\ pc = "volume.size" => KeepsOrReplacesAggregates

\* C15 as stated: a step of populate_instances, whichever meter it reads,
\* leaves every aggregate in place with every field it had.
C15_MergeKeepsFields == [][PopulateStepKeeps]_vars

\* C15 as amended: the vcpus and memory steps leave every aggregate in place
\* with every field it had; the volume.size step leaves an aggregate as it
\* was or puts in its place a fresh one, with AllocatedDisk and without
\* Flavor, AllocatedCPU and AllocatedMemory.
C15_VolumeEntryReplaces == [][PopulateStepKeepsOrReplaces]_vars

\* the memory entry of an instance was merged into the aggregate its vcpus
\* entry had made, and the volume.size statistics are about to be read
C15_Witness ==
  /\ pc = "volume.size"
  /\ \E i \in 1..Len(instance_measurements) :
       /\ HasBoth(instance_measurements[i].inst)
       /\ "Flavor" \in DOMAIN instance_measurements[i].inst

\* populate_instances raised: the run failed before gather_cloud_records
\* looked at any aggregate
PopulateRaised(code) ==
  pc = "failed" /\ error = code /\ gather_at = 0 /\ resources # <<>>

\* C16: a statistics entry that names a resource the inventory lacks is
\* skipped; populate_instances raises nothing over it, neither the NameError
\* of the vcpus/memory loop nor the StopIteration of the volume.size loop.
C16_UnknownResourceSkipped ==
  ~PopulateRaised("NameError") /\ ~PopulateRaised("StopIteration")

\* the stage that follows a stage of populate_instances
StageAfter(stage) ==
  IF stage = "vcpus" THEN "memory"
  ELSE IF stage = "memory" THEN "volume.size" ELSE "gather"

\* the field a meter sets
FieldOf(meter) ==
  IF meter = "vcpus" THEN "AllocatedCPU"
  ELSE IF meter = "memory" THEN "AllocatedMemory" ELSE "AllocatedDisk"

\* no aggregate holds the field of a meter whose query this run was refused
RefusedMetersAddNothing ==
  \A meter \in journal.skipped :
    \A i \in 1..Len(instance_measurements) :
      FieldOf(meter) \notin DOMAIN instance_measurements[i].inst

\* the step in which a query is refused raises nothing, leaves the
\* aggregates as they are and goes on to the next stage
RefusedStepGoesOn ==
  (journal'.skipped # journal.skipped /\ journal'.skipped # {}) =>
     /\ journal'.skipped = journal.skipped \cup {pc}
     /\ error' = ""
     /\ pc' = StageAfter(pc)
     /\ instance_measurements' = instance_measurements

\* C17: a refused statistics query does not end the run: the step raises
\* nothing and goes on to the next meter with the aggregates as they were,
\* and the refused meter's field is in no aggregate.
C17_RefusedMeterSkipped ==
  []RefusedMetersAddNothing /\ [][RefusedStepGoesOn]_vars

\* the memory query was refused, and the aggregates hold what the vcpus and
\* the volume.size statistics gave
C17_Witness ==
  /\ pc = "gather"
  /\ journal.skipped = {"memory"}
  /\ \E i \in 1..Len(instance_measurements) :
       "AllocatedCPU" \in DOMAIN instance_measurements[i].inst
  /\ \E i \in 1..Len(instance_measurements) :
       "AllocatedDisk" \in DOMAIN instance_measurements[i].inst

\* an aggregate with one of the two compute fields and not the other
HalfCompute(inst) ==
  /\ ~HasBoth(inst)
  /\ "AllocatedCPU" \in DOMAIN inst \/ "AllocatedMemory" \in DOMAIN inst

\* C18 as stated: an aggregate that lacks one compute field gets no
\* ComputeRecord, and gather_cloud_records does not raise on it.
C18_HalfComputeNoCrash ==
  \A i \in 1..gather_at :
    LET inst == instance_measurements[i].inst
    IN  HalfCompute(inst) =>
          /\ RecordsFor(inst, "ComputeRecord") = {}
          /\ ~RaisedAt(i)

\* C18 as amended: an aggregate that lacks one compute field gets no
\* ComputeRecord; gather_cloud_records takes it for storage, finds no
\* AllocatedDisk and raises KeyError on it, which ends the run with no record
\* for the aggregate.
C18_HalfComputeAborts ==
  \A i \in 1..gather_at :
    LET inst == instance_measurements[i].inst
    IN  HalfCompute(inst) =>
          /\ RecordsFor(inst, "ComputeRecord") = {}
          /\ RecordsFor(inst, "StorageRecord") = {}
          /\ RaisedAt(i)
          /\ error = "KeyError"

\* the vcpus statistics gave an instance its AllocatedCPU, no memory entry
\* came for it, and gather_cloud_records died of KeyError on the aggregate
C18_Witness ==
  /\ pc = "failed"
  /\ error = "KeyError"
  /\ gather_at > 0
  /\ LET inst == instance_measurements[gather_at].inst
     IN  "AllocatedCPU" \in DOMAIN inst /\ "AllocatedMemory" \notin DOMAIN inst

\* C19: when keystone does not answer for the user or the project of an
\* aggregate, gather_cloud_records deals with that aggregate alone: no run
\* ends on the TypeError that a user or project of None gives at the aggregate.
C19_UnknownIdentityNotFatal ==
  \A i \in 1..gather_at : ~(RaisedAt(i) /\ error = "TypeError")

\* the id is in the cache of its kind
Cached(k) == k[2] \in DOMAIN identity_cache[k[1]]

\* C20 as stated: whatever calls are made on one IdentityCache, each user id
\* and each project id is looked up at keystone at most once, refused or not,
\* and every later call for the id returns what the first call returned.
C20_OneLookupPerId ==
  \A k \in CacheKeys :
    /\ asked.sent[k] <= 1
    /\ asked.last[k] = asked.first[k]

\* C20 as amended: only an answer is cached. An id is looked up once for
\* every call that returned None and once more for the call that got the
\* answer; from then on every call returns the cached answer, and until then
\* every call returns None.
C20_OneLookupPerAnswer ==
  \A k \in CacheKeys :
    /\ asked.sent[k] = asked.misses[k] + (IF Cached(k) THEN 1 ELSE 0)
    /\ Cached(k) => asked.last[k] = identity_cache[k[1]][k[2]]
    /\ Cached(k) => asked.last[k] # None
    /\ (~Cached(k) /\ asked.first[k] # Unasked) => asked.last[k] = None

\* an id was refused on the first call, looked up again on the second and
\* answered
C20_Witness ==
  \E k \in CacheKeys :
    /\ asked.sent[k] = 2
    /\ asked.first[k] = None
    /\ asked.last[k] # None
    /\ Cached(k)

\* C21: with no "storage.block" price in the cost table,
\* lookup_block_storage gives 0 whatever the size, and the aggregate with a
\* disk size still gets its StorageRecord, with Cost 0: the missing price
\* raises nothing at the aggregate (only an identity keystone refuses does).
C21_MissingBlockPriceCostsZero ==
  /\ \A costs \in CostTables \cup {NoCosts}, g \in 0..MeterMax("volume.size") :
       "storage.block" \notin DOMAIN costs => lookup_block_storage(costs, g) = 0
  /\ \A i \in 1..gather_at :
       LET inst == instance_measurements[i].inst
       IN  (HasOnlyDisk(inst) /\ "storage.block" \notin DOMAIN flavor_costs) =>
             /\ RaisedAt(i) => error = "TypeError"
             /\ ~RaisedAt(i) =>
                  /\ RecordsFor(inst, "StorageRecord") # {}
                  /\ \A j \in RecordsFor(inst, "StorageRecord") :
                       cloud_records[j].Cost = 0

\* a run got through gather_cloud_records with a volume of a size above zero
\* and a cost table without "storage.block"
C21_Witness ==
  /\ Gathered
  /\ "storage.block" \notin DOMAIN flavor_costs
  /\ \E i \in 1..gather_at :
       LET inst == instance_measurements[i].inst
       IN  /\ HasOnlyDisk(inst)
           /\ inst.AllocatedDisk > 0
           /\ \E j \in RecordsFor(inst, "StorageRecord") : cloud_records[j].Cost = 0

\* C22: the StorageRecord of an aggregate with a disk of g GiB has
\* AllocatedDisk = g * 2^30 bytes (here g * 2^10 MiB), and its cost is
\* computed from g in GiB.
C22_AllocatedDiskInBytes ==
  \A i \in 1..gather_at :
    LET inst == instance_measurements[i].inst
    IN  HasOnlyDisk(inst) =>
          \A j \in RecordsFor(inst, "StorageRecord") :
            /\ cloud_records[j].AllocatedDisk = inst.AllocatedDisk * Pow2(30 - 20)
            /\ cloud_records[j].Cost =
                 lookup_block_storage(flavor_costs, inst.AllocatedDisk)

\* C23: for two consecutive windows with the cursor values a < b < c, the
\* statistics filters of the two runs (timestamp > period_start and
\* timestamp <= period_end) select a sample with a < t <= c in exactly one
\* of the two queries, the sample at t = b included, and a sample outside
\* (a, c] in neither.
C23_SampleSelectedOnce ==
  sampled.queried = {1, 2} =>
    IF sampled.a < sampled.t /\ sampled.t <= sampled.c
    THEN Cardinality(sampled.selected_by) = 1
    ELSE sampled.selected_by = {}

\* both filters were put to a sample lying on the shared boundary b, and the
\* first window's alone selected it
C23_Witness ==
  /\ sampled.queried = {1, 2}
  /\ sampled.a < sampled.b /\ sampled.b < sampled.c
  /\ sampled.t = sampled.b
  /\ sampled.selected_by = {1}

====
